---- MODULE Spec2Model ----
(***************************************************************************)
(* The shared form store of src/src/useFormStore.tsx (zustand store with   *)
(* forms and errors, keyed by form identifier) and the per-form view       *)
(* useForm(formKey).                                                       *)
(*                                                                         *)
(* JavaScript values are tagged so that values of different kinds can be   *)
(* compared:                                                               *)
(*   FormDataValue  [tag, prim, items, props]                              *)
(*       tag = "prim"    a string/number, held in prim                     *)
(*       tag = "array"   an array, its slots held in items                 *)
(*       tag = "object"  a nested record, its fields held in props         *)
(*   array slot     [kind, props]                                          *)
(*       kind = "hole"       an index below length that the array does not *)
(*                           own (sparse array); reads as undefined        *)
(*       kind = "undefined"  an own element whose value is undefined       *)
(*       kind = "object"     a nested record such as a hobby item          *)
(* Array indexes are 0-based as in the source; sequences are 1-based.      *)
(***************************************************************************)
EXTENDS Integers, Sequences, FiniteSets, TLC

VARIABLES
  forms,    \* state.forms: form key -> form data record
  errors,   \* state.errors: form key -> error record
  last,     \* history: the store operation called last, and its form key
  schema,   \* local-state hook: the schema the hook was given
  formState,\* local-state hook: field name -> {value, error}
  submits,  \* local-state hook: the records onSubmit has been called with
  mounted,  \* UserForm: the mount effect has run
  rendered  \* UserForm: the formData the handlers of the last render captured

vars == <<forms, errors, last, schema, formState, submits, mounted, rendered>>

\* the variables of the local-state hook
hookVars == <<schema, formState, submits>>

\* the variables of the UserForm component
viewVars == <<mounted, rendered>>

\* ---------------------------------------------------------------- bounds
\* the longest array the store is driven to hold
MaxLen == 2

\* the longest run of consecutive addToFormArray calls considered
MaxAppends == 2

\* ---------------------------------------------------------------- values
NoProps == <<>>

Prim(s) == [tag |-> "prim", prim |-> s, items |-> <<>>, props |-> NoProps]

Arr(xs) == [tag |-> "array", prim |-> "", items |-> xs, props |-> NoProps]

Obj(r) == [tag |-> "object", prim |-> "", items |-> <<>>, props |-> r]

Hole == [kind |-> "hole", props |-> NoProps]

Undefined == [kind |-> "undefined", props |-> NoProps]

Item(r) == [kind |-> "object", props |-> r]

EmptyRecord == <<>>

\* ---------------------------------------------------------------- inputs
FormKeys == {"f1", "f2"}

FieldKeys == {"name", "hobbies"}

Chess == Item([name |-> "chess"])

Ski == Item([name |-> "ski"])

Items == {Chess, Ski}

Address == Obj([city |-> "a", zip |-> "a"])

AddressPatch == Obj([zip |-> "b"])

Partials ==
  { EmptyRecord,
    [name |-> Prim("Alice")],
    [name |-> Address],
    [name |-> AddressPatch],
    [hobbies |-> Arr(<<Chess>>)],
    [name |-> Prim("Bob"), hobbies |-> Arr(<<>>)] }

\* the partial records passed to updateForm for the second form, a form of
\* scalar fields only (as the forms of the simple store variant are)
ScalarPartials ==
  { [name |-> Prim("Alice")],
    [name |-> Prim("Bob")] }

PartialsFor(formKey) == IF formKey = "f1" THEN Partials ELSE ScalarPartials

ErrorRecords ==
  { [name |-> Prim("Name is required")],
    [hobbies |-> Arr(<<Item([name |-> "bad"])>>)] }

\* the indexes passed to updateFormArray: inside the array, at its end and
\* past its end (negative indexes are not passed)
UpdateIndexes == 0 .. (MaxLen - 1)

\* the indexes passed to removeFromFormArray: inside the array and off both ends
RemoveIndexes == -1 .. MaxLen

\* the history variable: no call yet, and the call made last

NoCall == [op |-> "", formKey |-> ""]

Call(op, formKey) == [op |-> op, formKey |-> formKey]

\* ------------------------------------------------------- object helpers
\* { ...a, ...b }: the fields of b, and the fields of a that b does not name
SpreadMerge(a, b) ==
  [f \in (DOMAIN a) \cup (DOMAIN b) |-> IF f \in DOMAIN b THEN b[f] ELSE a[f]]

\* state.forms[formKey] under a spread: an absent key spreads as no fields
FieldsOf(container, formKey) ==
  IF formKey \in DOMAIN container THEN container[formKey] ELSE EmptyRecord

\* { [formKey]: record } without "...container": the other keys are lost
WithKeyAlone(container, formKey, record) == [k \in {formKey} |-> record]

\* { ...container, [formKey]: record }
WithKey(container, formKey, record) ==
  [k \in (DOMAIN container) \cup {formKey} |->
     IF k = formKey THEN record ELSE container[k]]

\* const { [formKey]: _, ...rest } = container
WithoutKey(container, formKey) ==
  [k \in (DOMAIN container) \ {formKey} |-> container[k]]

\* -------------------------------------------------------- array helpers
\* a truthiness test in place of Array.isArray
IsArrayFieldTruthy(record, fieldKey) == fieldKey \in DOMAIN record

\* Array.isArray(currentForm[fieldKey]); a missing field reads undefined
IsArrayField(record, fieldKey) ==
  /\ fieldKey \in DOMAIN record
  /\ record[fieldKey].tag = "array"

\* [...currentArray]: iteration yields undefined for a hole
SpreadArray(xs) ==
  [i \in 1 .. Len(xs) |-> IF xs[i].kind = "hole" THEN Undefined ELSE xs[i]]

\* newArray[index] = value, index >= 0: writing at or past length extends
\* the array and leaves the skipped indexes as holes
AssignIndex(xs, index, value) ==
  [i \in 1 .. (IF index + 1 > Len(xs) THEN index + 1 ELSE Len(xs)) |->
     IF i = index + 1 THEN value
     ELSE IF i <= Len(xs) THEN xs[i]
     ELSE Hole]

RECURSIVE FilterFrom(_, _, _)
\* the elements of xs from (1-based) position pos on that filter keeps:
\* the callback is not run for holes, and rejects the 0-based index
FilterFrom(xs, pos, index) ==
  IF pos > Len(xs) THEN <<>>
  ELSE IF xs[pos].kind = "hole" \/ pos - 1 = index
       THEN FilterFrom(xs, pos + 1, index)
       ELSE <<xs[pos]>> \o FilterFrom(xs, pos + 1, index)

\* filter with the index taken as 1-based: the element before is dropped
FilterIndexOneBased(xs, index) == FilterFrom(xs, 1, index - 1)

\* currentArray.filter((_, i) => i !== index)
FilterIndex(xs, index) == FilterFrom(xs, 1, index)

\* xs[i] for a 0-based i: undefined for a hole and outside the array
ReadAt(xs, i) ==
  IF i >= 0 /\ i < Len(xs) /\ xs[i + 1].kind # "hole" THEN xs[i + 1]
  ELSE Undefined

\* ------------------------------------------------------------ reducers
\* Each store operation hands set() a function of the current state; the
\* operators below are those functions.  A state is a record with the fields
\* forms and errors; a reducer returns the fields to replace (or the state
\* itself, which replaces every field by itself).

\* updateForm without "...state.forms[formKey]": the record is replaced
updateFormReplacing(state, formKey, data) ==
  [forms |-> WithKey(state.forms, formKey, data)]

\* updateForm with the two spreads in the other order: old fields win
updateFormOldWins(state, formKey, data) ==
  [forms |-> WithKey(state.forms, formKey,
                     SpreadMerge(data, FieldsOf(state.forms, formKey)))]

updateForm(state, formKey, data) ==
  [forms |-> WithKey(state.forms, formKey,
                     SpreadMerge(FieldsOf(state.forms, formKey), data))]

\* resetForm that clears the form's error record with its data
resetFormAndErrors(state, formKey) ==
  [forms |-> WithoutKey(state.forms, formKey),
   errors |-> WithoutKey(state.errors, formKey)]

\* resetForm that empties the record and keeps the key
resetFormEmptying(state, formKey) ==
  [forms |-> WithKey(state.forms, formKey, EmptyRecord)]

resetForm(state, formKey) ==
  [forms |-> WithoutKey(state.forms, formKey)]

\* submitForm that clears the submitted form
submitFormClearing(state, formKey) ==
  [forms |-> WithoutKey(state.forms, formKey)]

submitForm(state, formKey) == state

\* setError that merges into the previous error record, as updateForm does
setErrorMerging(state, formKey, err) ==
  [errors |-> WithKey(state.errors, formKey,
                      SpreadMerge(FieldsOf(state.errors, formKey), err))]

setError(state, formKey, err) ==
  [errors |-> WithKey(state.errors, formKey, err)]

clearError(state, formKey) ==
  [errors |-> WithoutKey(state.errors, formKey)]

updateFormArray(state, formKey, fieldKey, index, value) ==
  IF formKey \notin DOMAIN state.forms THEN state
  ELSE IF ~IsArrayField(state.forms[formKey], fieldKey) THEN state
  ELSE [forms |->
          WithKey(state.forms, formKey,
            SpreadMerge(state.forms[formKey],
              [f \in {fieldKey} |->
                 Arr(AssignIndex(SpreadArray(state.forms[formKey][fieldKey].items),
                                 index, value))]))]

\* addToFormArray with [value, ...currentArray]: the value goes in front
addToFormArrayInFront(state, formKey, fieldKey, value) ==
  IF formKey \notin DOMAIN state.forms THEN state
  ELSE IF ~IsArrayField(state.forms[formKey], fieldKey) THEN state
  ELSE [forms |->
          WithKey(state.forms, formKey,
            SpreadMerge(state.forms[formKey],
              [f \in {fieldKey} |->
                 Arr(<<value>> \o SpreadArray(state.forms[formKey][fieldKey].items))]))]

addToFormArray(state, formKey, fieldKey, value) ==
  IF formKey \notin DOMAIN state.forms THEN state
  ELSE IF ~IsArrayField(state.forms[formKey], fieldKey) THEN state
  ELSE [forms |->
          WithKey(state.forms, formKey,
            SpreadMerge(state.forms[formKey],
              [f \in {fieldKey} |->
                 Arr(Append(SpreadArray(state.forms[formKey][fieldKey].items),
                            value))]))]

removeFromFormArray(state, formKey, fieldKey, index) ==
  IF formKey \notin DOMAIN state.forms THEN state
  ELSE IF ~IsArrayField(state.forms[formKey], fieldKey) THEN state
  ELSE [forms |->
          WithKey(state.forms, formKey,
            SpreadMerge(state.forms[formKey],
              [f \in {fieldKey} |->
                 Arr(FilterIndex(state.forms[formKey][fieldKey].items, index))]))]

\* ---------------------------------------------------------------- state
\* the store's current state
State == [forms |-> forms, errors |-> errors]

\* set(fn): the fields fn returns replace those of the state, the rest stay
SetState(state, partial) == SpreadMerge(state, partial)

\* the store after set(fn) has run
Set(partial) ==
  /\ forms' = SetState(State, partial).forms
  /\ errors' = SetState(State, partial).errors

\* ------------------------------------------------------- per-form view
\* useForm(formKey).formData: formData || {}
formData(formKey) == FieldsOf(forms, formKey)

\* useForm(formKey).error: error || {}
error(formKey) == FieldsOf(errors, formKey)

\* the length of the array a field holds, 0 when it holds none
LenOf(formKey, fieldKey) ==
  IF formKey \in DOMAIN forms /\ IsArrayField(forms[formKey], fieldKey)
  THEN Len(forms[formKey][fieldKey].items)
  ELSE 0

\* no component uses the local-state hook
NoHook ==
  /\ schema = EmptyRecord
  /\ formState = EmptyRecord
  /\ submits = <<>>

\* no UserForm is mounted
NoView ==
  /\ mounted = FALSE
  /\ rendered = EmptyRecord

Init ==
  /\ forms = EmptyRecord
  /\ errors = EmptyRecord
  /\ last = NoCall
  /\ NoHook
  /\ NoView

\* ------------------------------------------------------------- actions
CallUpdateForm(formKey, data) ==
  /\ Set(updateForm(State, formKey, data))
  /\ last' = Call("updateForm", formKey)
  /\ UNCHANGED <<hookVars, viewVars>>

CallResetForm(formKey) ==
  /\ Set(resetForm(State, formKey))
  /\ last' = Call("resetForm", formKey)
  /\ UNCHANGED <<hookVars, viewVars>>

CallSubmitForm(formKey) ==
  /\ Set(submitForm(State, formKey))
  /\ last' = Call("submitForm", formKey)
  /\ UNCHANGED <<hookVars, viewVars>>

CallSetError(formKey, err) ==
  /\ Set(setError(State, formKey, err))
  /\ last' = Call("setError", formKey)
  /\ UNCHANGED <<hookVars, viewVars>>

CallClearError(formKey) ==
  /\ Set(clearError(State, formKey))
  /\ last' = Call("clearError", formKey)
  /\ UNCHANGED <<hookVars, viewVars>>

CallUpdateFormArray(formKey, fieldKey, index, value) ==
  /\ Set(updateFormArray(State, formKey, fieldKey, index, value))
  /\ last' = Call("updateFormArray", formKey)
  /\ UNCHANGED <<hookVars, viewVars>>

CallAddToFormArray(formKey, fieldKey, value) ==
  /\ LenOf(formKey, fieldKey) < MaxLen
  /\ Set(addToFormArray(State, formKey, fieldKey, value))
  /\ last' = Call("addToFormArray", formKey)
  /\ UNCHANGED <<hookVars, viewVars>>

CallRemoveFromFormArray(formKey, fieldKey, index) ==
  /\ Set(removeFromFormArray(State, formKey, fieldKey, index))
  /\ last' = Call("removeFromFormArray", formKey)
  /\ UNCHANGED <<hookVars, viewVars>>

Next ==
  \/ \E k \in FormKeys : \E p \in PartialsFor(k) : CallUpdateForm(k, p)
  \/ \E k \in FormKeys : CallResetForm(k)
  \/ \E k \in FormKeys : CallSubmitForm(k)
  \/ \E k \in FormKeys, e \in ErrorRecords : CallSetError(k, e)
  \/ \E k \in FormKeys : CallClearError(k)
  \/ \E k \in FormKeys, f \in FieldKeys, i \in UpdateIndexes, v \in Items :
       CallUpdateFormArray(k, f, i, v)
  \/ \E k \in FormKeys, f \in FieldKeys, v \in Items :
       CallAddToFormArray(k, f, v)
  \/ \E k \in FormKeys, f \in FieldKeys, i \in RemoveIndexes :
       CallRemoveFromFormArray(k, f, i)

Spec == Init /\ [][Next]_vars

\* ================================================================ claims
\* the forms and the errors after set(fn) has run with fn's result `partial`
FormsAfter(partial) == SetState(State, partial).forms

ErrorsAfter(partial) == SetState(State, partial).errors

\* ---------------------------------------------------------------- C1
\* C1: updateForm(k, p) sets forms[k] to the shallow merge of the previous
\* forms[k] (the empty record when k was absent) with p: every field p names
\* takes p's value, every other field of the previous record keeps its value,
\* and k is a key of forms afterwards.
C1_UpdateFormShallowMerge ==
  \A k \in FormKeys : \A p \in Partials :
    LET after == FormsAfter(updateForm(State, k, p))
    IN /\ k \in DOMAIN after
       /\ DOMAIN after[k] =
            (IF k \in DOMAIN forms THEN DOMAIN forms[k] ELSE {}) \cup DOMAIN p
       /\ \A f \in DOMAIN p : after[k][f] = p[f]
       /\ k \in DOMAIN forms =>
            \A f \in (DOMAIN forms[k]) \ (DOMAIN p) : after[k][f] = forms[k][f]

\* an update of the name alone has been merged into a record holding hobbies
C1_Witness ==
  /\ last = Call("updateForm", "f1")
  /\ "f1" \in DOMAIN forms
  /\ DOMAIN forms["f1"] = {"name", "hobbies"}
  /\ forms["f1"]["name"] = Prim("Alice")
  /\ forms["f1"]["hobbies"] = Arr(<<Chess, Ski>>)

\* ---------------------------------------------------------------- C2
\* the deep merge of two records: a field that is a nested record in both is
\* merged field by field, a field that is an array in both index by index
DeepMergeSlot(x, y) ==
  IF x.kind = "object" /\ y.kind = "object"
  THEN Item(SpreadMerge(x.props, y.props))
  ELSE y

DeepMergeItems(xs, ys) ==
  [i \in 1 .. (IF Len(xs) > Len(ys) THEN Len(xs) ELSE Len(ys)) |->
     IF i > Len(ys) THEN xs[i]
     ELSE IF i > Len(xs) THEN ys[i]
     ELSE DeepMergeSlot(xs[i], ys[i])]

DeepMergeValue(a, b) ==
  IF a.tag = "object" /\ b.tag = "object" THEN Obj(SpreadMerge(a.props, b.props))
  ELSE IF a.tag = "array" /\ b.tag = "array" THEN Arr(DeepMergeItems(a.items, b.items))
  ELSE b

DeepMerge(a, b) ==
  [f \in (DOMAIN a) \cup (DOMAIN b) |->
     IF f \notin DOMAIN b THEN a[f]
     ELSE IF f \notin DOMAIN a THEN b[f]
     ELSE DeepMergeValue(a[f], b[f])]

\* field f is a nested record in both records, or an array in both
NestedInBoth(a, b, f) ==
  /\ f \in (DOMAIN a) \cap (DOMAIN b)
  /\ a[f].tag = b[f].tag
  /\ a[f].tag \in {"object", "array"}

\* C2 as stated: updateForm(k, p) followed by a read of forms[k] returns the
\* deep merge of the prior record and p, also when both carry a nested record
\* or array under the same field name.
C2_UpdateFormDeepMerge ==
  \A k \in FormKeys : \A p \in Partials :
    FieldsOf(FormsAfter(updateForm(State, k, p)), k) = DeepMerge(formData(k), p)

\* C2 as amended: the read returns the deep merge whenever no field is a
\* nested record (or an array) in both the prior record and p; a field that
\* is nested in both takes p's value whole, the prior nested content dropped.
C2_UpdateFormMergeUnlessNested ==
  \A k \in FormKeys : \A p \in Partials :
    LET read == FieldsOf(FormsAfter(updateForm(State, k, p)), k)
    IN /\ (\A f \in FieldKeys : ~NestedInBoth(formData(k), p, f)) =>
            read = DeepMerge(formData(k), p)
       /\ \A f \in FieldKeys : NestedInBoth(formData(k), p, f) => read[f] = p[f]

\* updateForm has written a nested record beside an array field
C2_Witness ==
  /\ last = Call("updateForm", "f1")
  /\ "f1" \in DOMAIN forms
  /\ DOMAIN forms["f1"] = {"name", "hobbies"}
  /\ forms["f1"]["name"] = AddressPatch
  /\ forms["f1"]["hobbies"] = Arr(<<Undefined, Ski>>)

\* ---------------------------------------------------------------- C3
\* the addressed field of the addressed form holds an array
HoldsArray(k, f) ==
  /\ k \in DOMAIN forms
  /\ f \in DOMAIN forms[k]
  /\ forms[k][f].tag = "array"

\* C3: updateFormArray, addToFormArray and removeFromFormArray are no-ops when
\* the addressed form key is absent or the addressed field is not an array
\* (missing, scalar or nested record): forms and errors are as before, no
\* entry or field is created.
C3_ArrayOpsNoOpOffArray ==
  \A k \in FormKeys, f \in FieldKeys :
    ~HoldsArray(k, f) =>
      /\ \A i \in RemoveIndexes, v \in Items :
           SetState(State, updateFormArray(State, k, f, i, v)) = State
      /\ \A v \in Items :
           SetState(State, addToFormArray(State, k, f, v)) = State
      /\ \A i \in RemoveIndexes :
           SetState(State, removeFromFormArray(State, k, f, i)) = State

\* addToFormArray has been called on a form whose only field is a scalar
C3_Witness ==
  /\ last = Call("addToFormArray", "f1")
  /\ "f1" \in DOMAIN forms
  /\ DOMAIN forms["f1"] = {"name"}
  /\ forms["f1"]["name"].tag = "prim"
  /\ "f1" \in DOMAIN errors

\* ---------------------------------------------------------------- C4
\* what a reader of the two arrays sees: the same length, and the same value
\* at every index (a hole reads as undefined)
SameElements(xs, ys) ==
  /\ Len(xs) = Len(ys)
  /\ \A i \in 0 .. (Len(xs) - 1) : ReadAt(xs, i) = ReadAt(ys, i)

\* record r2 is record r1 except, possibly, in field f
SameOtherFields(r1, r2, f) ==
  /\ DOMAIN r2 = DOMAIN r1
  /\ \A g \in (DOMAIN r1) \ {f} : r2[g] = r1[g]

\* C4: where forms[k][f] is an array a of length n, addToFormArray(k, f, v)
\* followed by removeFromFormArray(k, f, n) leaves forms[k][f] equal to a
\* (length, elements, order) and every other field of forms[k] unchanged.
C4_AddThenRemoveRestores ==
  \A k \in FormKeys, f \in FieldKeys, v \in Items :
    HoldsArray(k, f) =>
      LET a == forms[k][f].items
          s1 == SetState(State, addToFormArray(State, k, f, v))
          s2 == SetState(s1, removeFromFormArray(s1, k, f, Len(a)))
      IN /\ k \in DOMAIN s2.forms
         /\ SameOtherFields(forms[k], s2.forms[k], f)
         /\ s2.forms[k][f].tag = "array"
         /\ SameElements(s2.forms[k][f].items, a)

\* an element has been removed from the hobbies, leaving one hobby beside a name
C4_Witness ==
  /\ last = Call("removeFromFormArray", "f1")
  /\ "f1" \in DOMAIN forms
  /\ DOMAIN forms["f1"] = {"name", "hobbies"}
  /\ forms["f1"]["hobbies"] = Arr(<<Chess>>)
  /\ forms["f1"]["name"] = Address

\* ---------------------------------------------------------------- C5
\* C5 as stated: where forms[k][f] is an array of length n, for every index,
\* updateFormArray(k, f, index, value) leaves an array of length n with value
\* at index, every other position as before, and the other fields unchanged.
C5_UpdateFormArrayOverwritesOne ==
  \A k \in FormKeys, f \in FieldKeys, index \in UpdateIndexes, v \in Items :
    HoldsArray(k, f) =>
      LET a == forms[k][f].items
          after == FormsAfter(updateFormArray(State, k, f, index, v))
      IN /\ k \in DOMAIN after
         /\ SameOtherFields(forms[k], after[k], f)
         /\ after[k][f].tag = "array"
         /\ Len(after[k][f].items) = Len(a)
         /\ ReadAt(after[k][f].items, index) = v
         /\ \A i \in 0 .. (Len(a) - 1) :
              i # index => ReadAt(after[k][f].items, i) = ReadAt(a, i)

\* C5 within the array: the same statement for 0 <= index < n only (holds)
C5_UpdateFormArrayInRange ==
  \A k \in FormKeys, f \in FieldKeys, index \in UpdateIndexes, v \in Items :
    (HoldsArray(k, f) /\ index < Len(forms[k][f].items)) =>
      LET a == forms[k][f].items
          after == FormsAfter(updateFormArray(State, k, f, index, v))
      IN /\ k \in DOMAIN after
         /\ SameOtherFields(forms[k], after[k], f)
         /\ after[k][f].tag = "array"
         /\ Len(after[k][f].items) = Len(a)
         /\ ReadAt(after[k][f].items, index) = v
         /\ \A i \in 0 .. (Len(a) - 1) :
              i # index => ReadAt(after[k][f].items, i) = ReadAt(a, i)

\* ---------------------------------------------------------------- C6
\* no index of the array is a hole
NoHoles(xs) == \A i \in 1 .. Len(xs) : xs[i].kind # "hole"

\* C6 as stated: where forms[k][f] is an array a of length n and 0 <= i < n,
\* removeFromFormArray(k, f, i) leaves an array of length n-1: a with the
\* element at i deleted, the elements before i in place, those after i moved
\* down by one.
C6_RemoveDeletesOne ==
  \A k \in FormKeys, f \in FieldKeys, i \in RemoveIndexes :
    (HoldsArray(k, f) /\ 0 <= i /\ i < Len(forms[k][f].items)) =>
      LET a == forms[k][f].items
          after == FormsAfter(removeFromFormArray(State, k, f, i))
      IN /\ k \in DOMAIN after
         /\ after[k][f].tag = "array"
         /\ Len(after[k][f].items) = Len(a) - 1
         /\ \A j \in 0 .. (Len(a) - 2) :
              ReadAt(after[k][f].items, j) = ReadAt(a, IF j < i THEN j ELSE j + 1)

\* C6 on arrays without holes, which is every array that no updateFormArray
\* past the end has produced (holds)
C6_RemoveDeletesOneNoHoles ==
  \A k \in FormKeys, f \in FieldKeys, i \in RemoveIndexes :
    ( /\ HoldsArray(k, f)
      /\ 0 <= i
      /\ i < Len(forms[k][f].items)
      /\ NoHoles(forms[k][f].items) ) =>
      LET a == forms[k][f].items
          after == FormsAfter(removeFromFormArray(State, k, f, i))
      IN /\ k \in DOMAIN after
         /\ after[k][f].tag = "array"
         /\ Len(after[k][f].items) = Len(a) - 1
         /\ \A j \in 0 .. (Len(a) - 2) :
              ReadAt(after[k][f].items, j) = ReadAt(a, IF j < i THEN j ELSE j + 1)

\* ---------------------------------------------------------------- C7
RECURSIVE AddAll(_, _, _, _)
\* the state after addToFormArray(k, f, v) has been called for each v of vs
AddAll(state, k, f, vs) ==
  IF vs = <<>> THEN state
  ELSE AddAll(SetState(state, addToFormArray(state, k, f, Head(vs))), k, f, Tail(vs))

AppendRuns == UNION {[1 .. m -> Items] : m \in 1 .. MaxAppends}

\* C7: where forms[k][f] is an array a of length n, addToFormArray(k, f, v)
\* leaves an array of length n+1, a followed by v; m appends leave a followed
\* by the m values in call order.
C7_AddAppendsInCallOrder ==
  \A k \in FormKeys, f \in FieldKeys, vs \in AppendRuns :
    HoldsArray(k, f) =>
      LET a == forms[k][f].items
          after == AddAll(State, k, f, vs).forms
      IN /\ k \in DOMAIN after
         /\ after[k][f].tag = "array"
         /\ Len(after[k][f].items) = Len(a) + Len(vs)
         /\ \A i \in 0 .. (Len(a) - 1) :
              ReadAt(after[k][f].items, i) = ReadAt(a, i)
         /\ \A j \in 1 .. Len(vs) :
              after[k][f].items[Len(a) + j] = vs[j]

\* two hobbies have been appended, the second one last
C7_Witness ==
  /\ last = Call("addToFormArray", "f1")
  /\ "f1" \in DOMAIN forms
  /\ "hobbies" \in DOMAIN forms["f1"]
  /\ forms["f1"]["hobbies"] = Arr(<<Ski, Chess>>)

\* ---------------------------------------------------------------- C8
\* C8: after resetForm(k), k is not a key of forms and useForm(k) reads
\* formData as the empty record; this stays so under every operation until
\* the next updateForm(k, ...).
C8_ResetFormRemovesUntilUpdate ==
  [][\A k \in FormKeys :
       /\ last' = Call("resetForm", k) =>
            (k \notin DOMAIN forms' /\ formData(k)' = EmptyRecord)
       /\ (k \notin DOMAIN forms /\ last' # Call("updateForm", k)) =>
            (k \notin DOMAIN forms' /\ formData(k)' = EmptyRecord)]_vars

\* a form that held data has been reset while the other form and its own
\* error record stay
C8_Witness ==
  /\ last = Call("resetForm", "f1")
  /\ "f1" \notin DOMAIN forms
  /\ "f1" \in DOMAIN errors
  /\ "f2" \in DOMAIN forms

\* ---------------------------------------------------------------- C9
\* C9: submitForm(k) changes nothing in the store, for every state and every
\* key k, present or absent: forms and errors are as before.
C9_SubmitFormChangesNothing ==
  [][\A k \in FormKeys :
       last' = Call("submitForm", k) => (forms' = forms /\ errors' = errors)]_vars

\* a form holding a hobby and an error record has been submitted
C9_Witness ==
  /\ last = Call("submitForm", "f1")
  /\ "f1" \in DOMAIN forms
  /\ "hobbies" \in DOMAIN forms["f1"]
  /\ forms["f1"]["hobbies"] = Arr(<<Ski>>)
  /\ "f1" \in DOMAIN errors

\* ---------------------------------------------------------------- C10
\* container c2 holds for key j what container c1 holds: the same entry, or
\* none in both
SameEntry(c1, c2, j) ==
  /\ (j \in DOMAIN c2) = (j \in DOMAIN c1)
  /\ j \in DOMAIN c1 => c2[j] = c1[j]

\* C10: every store operation called with form key k leaves forms[j] and
\* errors[j], and j's presence or absence, unchanged for every key j # k.
C10_OtherFormsUntouched ==
  [][\A k \in FormKeys :
       last'.formKey = k =>
         \A j \in FormKeys \ {k} :
           SameEntry(forms, forms', j) /\ SameEntry(errors, errors', j)]_vars

\* an array operation has changed one form while the other holds data and errors
C10_Witness ==
  /\ last = Call("updateFormArray", "f1")
  /\ "f1" \in DOMAIN forms
  /\ "hobbies" \in DOMAIN forms["f1"]
  /\ forms["f1"]["hobbies"] = Arr(<<Undefined, Chess>>)
  /\ "f2" \in DOMAIN forms
  /\ "f2" \in DOMAIN errors

\* ---------------------------------------------------------------- C11
ArrayOps == {"updateFormArray", "addToFormArray", "removeFromFormArray"}

\* C11: the keys of forms change only by updateForm (which adds its key) and
\* resetForm (which removes its key), the keys of errors only by setError
\* (adds) and clearError (removes); resetForm(k) leaves errors as it was,
\* clearError(k) leaves forms as it was, and the array operations neither
\* create nor destroy a form entry.
C11_KeysChangeOnlyByTheirOps ==
  [][/\ last'.op = "updateForm" => DOMAIN forms' = (DOMAIN forms) \cup {last'.formKey}
     /\ last'.op = "resetForm" =>
          (DOMAIN forms' = (DOMAIN forms) \ {last'.formKey} /\ errors' = errors)
     /\ last'.op \notin {"updateForm", "resetForm"} => DOMAIN forms' = DOMAIN forms
     /\ last'.op = "setError" => DOMAIN errors' = (DOMAIN errors) \cup {last'.formKey}
     /\ last'.op = "clearError" =>
          (DOMAIN errors' = (DOMAIN errors) \ {last'.formKey} /\ forms' = forms)
     /\ last'.op \notin {"setError", "clearError"} => DOMAIN errors' = DOMAIN errors
     /\ last'.op \in ArrayOps => DOMAIN forms' = DOMAIN forms]_vars

\* a form's data has been reset while its error record and the other form's
\* data stay
C11_Witness ==
  /\ last = Call("resetForm", "f2")
  /\ "f2" \notin DOMAIN forms
  /\ "f2" \in DOMAIN errors
  /\ "f1" \in DOMAIN forms
  /\ "f1" \notin DOMAIN errors

\* ---------------------------------------------------------------- C12
\* C12: setError(k, e) replaces the whole error record of k: errors[k] = e
\* afterwards, no field of the previous record surviving unless e names it;
\* clearError(k) afterwards removes k from errors, so that useForm(k) reads
\* the empty error object.
C12_SetErrorReplacesClearErrorRemoves ==
  \A k \in FormKeys, e \in ErrorRecords :
    LET s1 == SetState(State, setError(State, k, e))
        s2 == SetState(s1, clearError(s1, k))
    IN /\ k \in DOMAIN s1.errors
       /\ s1.errors[k] = e
       /\ DOMAIN s1.errors[k] = DOMAIN e
       /\ s1.forms = forms
       /\ k \notin DOMAIN s2.errors
       /\ FieldsOf(s2.errors, k) = EmptyRecord
       /\ s2.forms = forms

\* one form's error record has been set to each of the two error records
C12_Witness ==
  /\ last = Call("setError", "f1")
  /\ "f1" \in DOMAIN errors
  /\ errors["f1"] = [hobbies |-> Arr(<<Item([name |-> "bad"])>>)]
  /\ "f2" \in DOMAIN errors
  /\ errors["f2"] = [name |-> Prim("Name is required")]

\* ---------------------------------------------------------------- C13
\* C13: two updateForm calls on the same key, in either order, leave forms[k]
\* as the merge of the prior record with both partial records in call order:
\* no field either call wrote is lost, and the later call wins a shared field.
C13_TwoUpdatesMergeInCallOrder ==
  \A k \in FormKeys : \A p1 \in PartialsFor(k), p2 \in PartialsFor(k) :
    LET prior == formData(k)
        s1 == SetState(State, updateForm(State, k, p1))
        s2 == SetState(s1, updateForm(s1, k, p2))
        merged == FieldsOf(s2.forms, k)
    IN /\ k \in DOMAIN s2.forms
       /\ DOMAIN merged = (DOMAIN prior) \cup (DOMAIN p1) \cup (DOMAIN p2)
       /\ \A f \in DOMAIN merged :
            merged[f] = IF f \in DOMAIN p2 THEN p2[f]
                        ELSE IF f \in DOMAIN p1 THEN p1[f]
                        ELSE prior[f]
       /\ s2.errors = errors

\* two updates of the same form have each left their field
C13_Witness ==
  /\ last = Call("updateForm", "f1")
  /\ "f1" \in DOMAIN forms
  /\ DOMAIN forms["f1"] = {"name", "hobbies"}
  /\ forms["f1"]["name"] = Address
  /\ forms["f1"]["hobbies"] = Arr(<<Chess>>)

\* ---------------------------------------------------------------------
\* The local-state hook: useForm({defaultValues, schema})
\* ---------------------------------------------------------------------

\* most calls of onSubmit a run records
MaxSubmits == 2

\* the error of a field that passed validation
Null == "null"

\* the fields of the form, in the order the schema's shape lists them
FieldOrder == <<"name", "age">>

HookFields == {FieldOrder[i] : i \in DOMAIN FieldOrder}

defaultValues == [name |-> "", age |-> 0]

\* the values a change event can carry for a field
ValuesOf(field) == IF field = "name" THEN {"", "Alice"} ELSE {0, 30}

\* the rule a checked field puts on its value: a non-empty name, a positive age
Satisfies(field, value) == IF field = "name" THEN value # "" ELSE value > 0

\* the message of a checked field's rule
Message(field) == IF field = "name" THEN "Name is required" ELSE "Age must be positive"

\* the message of zod for a key that a record lacks and the schema requires
Required == "Required"

\* an object schema: for every field, whether it may be absent and whether its
\* value is checked against the field's rule
Schemas == [HookFields -> [optional : BOOLEAN, checked : BOOLEAN]]

Issue(field, message) == [path |-> field, message |-> message]

\* the issues schema.parse(record) raises, in the order of the schema's keys
RECURSIVE IssuesFrom(_, _, _)
IssuesFrom(sch, record, i) ==
  IF i > Len(FieldOrder) THEN <<>>
  ELSE LET field == FieldOrder[i]
           here == IF field \notin DOMAIN record
                   THEN IF sch[field].optional THEN <<>>
                        ELSE <<Issue(field, Required)>>
                   ELSE IF sch[field].checked /\ ~Satisfies(field, record[field])
                        THEN <<Issue(field, Message(field))>>
                        ELSE <<>>
       IN here \o IssuesFrom(sch, record, i + 1)

Issues(sch, record) == IssuesFrom(sch, record, 1)

initialState == [f \in HookFields |-> [value |-> defaultValues[f], error |-> Null]]

\* the result of checking a value against its own field's rule alone
validateFieldAlone(sch, name, value) ==
  IF sch[name].checked /\ ~Satisfies(name, value) THEN Message(name) ELSE Null

validateField(sch, name, value) ==
  LET issues == Issues(sch, [f \in {name} |-> value])
  IN IF issues = <<>> THEN Null ELSE issues[1].message

\* handleChange that writes the value and keeps the field's old error
handleChangeValueOnly(prev, sch, name, value) ==
  SpreadMerge(prev, [f \in {name} |-> [value |-> value, error |-> prev[name].error]])

handleChange(prev, sch, name, value) ==
  LET err == validateField(sch, name, value)
  IN SpreadMerge(prev, [f \in {name} |-> [value |-> value, error |-> err]])

\* the record handleSubmit that submits the default values builds
FormDataOfDefaults(state) == defaultValues

\* the record handleSubmit builds from the form state
FormDataOf(state) == [f \in DOMAIN state |-> state[f].value]

\* the catch branch of handleSubmit that reports the first issue only
RECURSIVE ApplyIssuesFirstOnly(_, _)
ApplyIssuesFirstOnly(prev, issues) ==
  IF issues = <<>> THEN prev
  ELSE LET field == issues[1].path
       IN SpreadMerge(prev,
            [f \in {field} |-> SpreadMerge(prev[field], [error |-> issues[1].message])])

\* the catch branch of handleSubmit: one setFormState per issue, in order
RECURSIVE ApplyIssues(_, _)
ApplyIssues(prev, issues) ==
  IF issues = <<>> THEN prev
  ELSE LET field == issues[1].path
           next == SpreadMerge(prev,
                     [f \in {field} |->
                        SpreadMerge(prev[field], [error |-> issues[1].message])])
       IN ApplyIssues(next, Tail(issues))

\* handleSubmit: the calls of onSubmit it makes and the form state it leaves
handleSubmit(state, sch) ==
  LET data == FormDataOf(state)
      issues == Issues(sch, data)
  IN IF issues = <<>>
     THEN [onSubmit |-> <<data>>, formState |-> state]
     ELSE [onSubmit |-> <<>>, formState |-> ApplyIssues(state, issues)]

HookInit ==
  /\ forms = EmptyRecord
  /\ errors = EmptyRecord
  /\ last = NoCall
  /\ schema \in Schemas
  /\ formState = initialState
  /\ submits = <<>>
  /\ NoView

HandleChange(name, value) ==
  /\ formState' = handleChange(formState, schema, name, value)
  /\ last' = Call("handleChange", name)
  /\ UNCHANGED <<forms, errors, schema, submits, viewVars>>

HandleSubmit ==
  /\ Len(submits) < MaxSubmits
  /\ LET done == handleSubmit(formState, schema)
     IN /\ formState' = done.formState
        /\ submits' = submits \o done.onSubmit
  /\ last' = Call("handleSubmit", "")
  /\ UNCHANGED <<forms, errors, schema, viewVars>>

HookNext ==
  \/ \E name \in HookFields : \E value \in ValuesOf(name) : HandleChange(name, value)
  \/ HandleSubmit

SpecHook == HookInit /\ [][HookNext]_vars

\* a field the record's value violates the schema on
Violates(sch, record, field) ==
  \/ field \notin DOMAIN record /\ ~sch[field].optional
  \/ field \in DOMAIN record /\ sch[field].checked /\ ~Satisfies(field, record[field])

\* the values the form holds now
CurrentValues == [f \in HookFields |-> formState[f].value]

\* C14: when the schema rejects the current values, handleSubmit does not call
\* onSubmit, leaves a non-null error on every field with a violation, keeps every
\* value, and keeps the error of every field without a violation
C14_FailedSubmitSetsErrorsOnly ==
  LET violated == {f \in HookFields : Violates(schema, CurrentValues, f)}
      done == handleSubmit(formState, schema)
  IN violated # {} =>
       /\ done.onSubmit = <<>>
       /\ DOMAIN done.formState = HookFields
       /\ \A f \in violated : done.formState[f].error # Null
       /\ \A f \in HookFields : done.formState[f].value = formState[f].value
       /\ \A f \in HookFields \ violated : done.formState[f].error = formState[f].error

C14_Witness ==
  /\ last = Call("handleSubmit", "")
  /\ submits = <<>>
  /\ formState["name"] = [value |-> "", error |-> "Name is required"]
  /\ formState["age"] = [value |-> 0, error |-> "Age must be positive"]

\* C15: a change of a field leaves that field's error null exactly when the new
\* value satisfies the schema's rule for that field, whatever the other fields
\* are, and a non-null error is that field's message
C15_ChangeValidatesFieldAlone ==
  \A f \in HookFields : \A v \in ValuesOf(f) :
    handleChange(formState, schema, f, v)[f].error = validateFieldAlone(schema, f, v)

\* C16: every change of a field ends with the field holding a value together with
\* the validation result of that same value, every other field as it was, and
\* no call of onSubmit
C16_ChangeWritesValueAndErrorTogether ==
  [][\A f \in HookFields :
       last' = Call("handleChange", f) =>
         /\ DOMAIN formState' = HookFields
         /\ formState'[f].value \in ValuesOf(f)
         /\ formState'[f].error = validateField(schema, f, formState'[f].value)
         /\ \A g \in HookFields \ {f} : formState'[g] = formState[g]
         /\ submits' = submits]_vars

C16_Witness ==
  /\ last = Call("handleChange", "age")
  /\ formState["age"] = [value |-> 30, error |-> Null]
  /\ formState["name"] = [value |-> "", error |-> "Name is required"]

\* C17: when the schema accepts the current values, handleSubmit calls onSubmit
\* exactly once, with the record of the current values, and leaves the form
\* state as it was
C17_PassingSubmitCallsOnSubmitOnce ==
  LET done == handleSubmit(formState, schema)
  IN (\A f \in HookFields : ~Violates(schema, CurrentValues, f)) =>
       /\ done.onSubmit = <<CurrentValues>>
       /\ done.formState = formState

C17_Witness ==
  /\ last = Call("handleSubmit", "")
  /\ submits = <<[name |-> "Alice", age |-> 30]>>
  /\ schema = [f \in HookFields |-> [optional |-> FALSE, checked |-> TRUE]]

\* ---------------------------------------------------------------------
\* The UserForm component over the store, form key "userForm"
\* ---------------------------------------------------------------------

UserFormKey == "userForm"

\* a number value; its text is the number's canonical decimal form
Num(s) == [tag |-> "number", prim |-> s, items |-> <<>>, props |-> NoProps]

\* the texts of the inputs that are decimal numerals in canonical form
Numerals == {"0", "7"}

\* Number(value) of the text of an input: the empty text is 0, a numeral is its
\* number, any other text is NaN
Number(value) ==
  IF value = "" THEN Num("0")
  ELSE IF value \in Numerals THEN Num(value)
  ELSE Num("NaN")

defaultFormData ==
  [name |-> Prim(""), email |-> Prim(""), age |-> Num("0"), hobbies |-> Arr(<<>>)]

defaultHobbyItem == Item([name |-> "", gender |-> "", country |-> ""])

\* the change events of the inputs: the input's name and its text
InputEvents ==
  { <<"name", "Ann">>, <<"name", "">>, <<"email", "a@b">>, <<"age", "7">>, <<"age", "x">> }

\* the hobby fields whose inputs are edited, and the texts typed into them
HobbyFields == {"name", "gender"}

HobbyTexts == {"a"}

\* !fields[key]: the field is absent, an empty text, or the number 0 or NaN
Falsy(fields, key) ==
  \/ key \notin DOMAIN fields
  \/ fields[key].tag = "prim" /\ fields[key].prim = ""
  \/ fields[key].tag = "number" /\ fields[key].prim \in {"0", "NaN"}

\* the elements of the hobbies array of a formData record, none when the
\* record holds no array there
HobbiesOf(fields) ==
  IF "hobbies" \in DOMAIN fields /\ fields["hobbies"].tag = "array"
  THEN fields["hobbies"].items
  ELSE <<>>

\* the error record handleSubmit sets when the name is empty
SubmitError ==
  [name |-> Prim("Name is required"), hobbies |-> Arr(<<Item([name |-> "fdsjioafjs"])>>)]

handleInputChange(state, name, value) ==
  updateForm(state, UserFormKey,
             [f \in {name} |-> IF name = "age" THEN Number(value) ELSE Prim(value)])

handleHobbyAdd(state) == addToFormArray(state, UserFormKey, "hobbies", defaultHobbyItem)

\* handleHobbyChange of the render that captured the formData `captured`, called
\* on the store state `state`
handleHobbyChange(captured, state, index, field, value) ==
  LET old == ReadAt(HobbiesOf(captured), index)
      base == IF old.kind = "object" THEN old ELSE defaultHobbyItem
  IN updateFormArray(state, UserFormKey, "hobbies", index,
                     Item(SpreadMerge(base.props, [f \in {field} |-> value])))

handleHobbyRemove(state, index) == removeFromFormArray(state, UserFormKey, "hobbies", index)

\* the render is of the current formData
Fresh == rendered = formData(UserFormKey)

ViewInit ==
  /\ forms = EmptyRecord
  /\ errors = EmptyRecord
  /\ last = NoCall
  /\ NoHook
  /\ mounted = FALSE
  /\ rendered = EmptyRecord

\* the mount effect, run once after the first render
Mount ==
  /\ ~mounted
  /\ mounted' = TRUE
  /\ Set(updateForm(State, UserFormKey, defaultFormData))
  /\ last' = Call("mount", UserFormKey)
  /\ UNCHANGED <<hookVars, rendered>>

\* the re-render a change of forms["userForm"] triggers
Render ==
  /\ mounted
  /\ ~Fresh
  /\ rendered' = formData(UserFormKey)
  /\ last' = Call("render", UserFormKey)
  /\ UNCHANGED <<forms, errors, hookVars, mounted>>

ChangeInput(name, value) ==
  /\ mounted /\ Fresh
  /\ Set(handleInputChange(State, name, value))
  /\ last' = Call("handleInputChange", UserFormKey)
  /\ UNCHANGED <<hookVars, viewVars>>

ClickAddHobby ==
  /\ mounted /\ Fresh
  /\ Len(HobbiesOf(formData(UserFormKey))) < MaxLen
  /\ Set(handleHobbyAdd(State))
  /\ last' = Call("handleHobbyAdd", UserFormKey)
  /\ UNCHANGED <<hookVars, viewVars>>

\* a change event of a rendered hobby input; a second call can follow the first
\* before the re-render, and then runs the handler of the same render
ChangeHobby(index, field, value) ==
  /\ mounted
  /\ Fresh \/ last = Call("handleHobbyChange", UserFormKey)
  /\ index < Len(HobbiesOf(rendered))
  /\ Set(handleHobbyChange(rendered, State, index, field, value))
  /\ last' = Call("handleHobbyChange", UserFormKey)
  /\ UNCHANGED <<hookVars, viewVars>>

ClickRemoveHobby(index) ==
  /\ mounted /\ Fresh
  /\ index < Len(HobbiesOf(rendered))
  /\ Set(handleHobbyRemove(State, index))
  /\ last' = Call("handleHobbyRemove", UserFormKey)
  /\ UNCHANGED <<hookVars, viewVars>>

\* handleSubmit of the component, reading the name the render captured
ClickSubmit ==
  /\ mounted /\ Fresh
  /\ IF Falsy(rendered, "name")
     THEN /\ Set(setError(State, UserFormKey, SubmitError))
          /\ last' = Call("setFormError", UserFormKey)
     ELSE /\ Set(submitForm(State, UserFormKey))
          /\ last' = Call("submitFormData", UserFormKey)
  /\ UNCHANGED <<hookVars, viewVars>>

ClickReset ==
  /\ mounted /\ Fresh
  /\ Set(resetForm(State, UserFormKey))
  /\ last' = Call("resetFormData", UserFormKey)
  /\ UNCHANGED <<hookVars, viewVars>>

ViewNext ==
  \/ Mount
  \/ Render
  \/ \E e \in InputEvents : ChangeInput(e[1], e[2])
  \/ ClickAddHobby
  \/ \E i \in UpdateIndexes, f \in HobbyFields, v \in HobbyTexts : ChangeHobby(i, f, v)
  \/ \E i \in UpdateIndexes : ClickRemoveHobby(i)
  \/ ClickSubmit
  \/ ClickReset

SpecView == ViewInit /\ [][ViewNext]_vars

\* C18: in every state after mount, Add Hobby leaves the hobbies list of
\* "userForm" one default hobby record longer
C18_AddHobbyGrowsByOne ==
  mounted =>
    LET after == SetState(State, handleHobbyAdd(State))
    IN HobbiesOf(FieldsOf(after.forms, UserFormKey))
         = Append(HobbiesOf(formData(UserFormKey)), defaultHobbyItem)

\* C19: two handleHobbyChange calls of one render on the same index that set
\* different fields leave the element with both new values
C19_BothHobbyChangesTakeEffect ==
  (mounted /\ Fresh) =>
    \A i \in UpdateIndexes : \A f1 \in HobbyFields, f2 \in HobbyFields :
      \A v1 \in HobbyTexts, v2 \in HobbyTexts :
        (i < Len(HobbiesOf(rendered)) /\ f1 # f2) =>
          LET s1 == SetState(State, handleHobbyChange(rendered, State, i, f1, v1))
              s2 == SetState(s1, handleHobbyChange(rendered, s1, i, f2, v2))
              element == ReadAt(HobbiesOf(FieldsOf(s2.forms, UserFormKey)), i)
          IN /\ element.kind = "object"
             /\ element.props[f1] = v1
             /\ element.props[f2] = v2

\* C20: a submit step calls submitFormData only when the current name is
\* non-empty and otherwise sets the error record without submitting; once
\* errors["userForm"] is set, no step of the component removes or changes it
C20_SubmitNeedsNameErrorStays ==
  [][/\ last' = Call("submitFormData", UserFormKey) =>
          (~Falsy(formData(UserFormKey), "name") /\ forms' = forms /\ errors' = errors)
     /\ last' = Call("setFormError", UserFormKey) =>
          /\ Falsy(formData(UserFormKey), "name")
          /\ forms' = forms
          /\ UserFormKey \in DOMAIN errors'
          /\ errors'[UserFormKey] = SubmitError
     /\ UserFormKey \in DOMAIN errors =>
          (UserFormKey \in DOMAIN errors' /\ errors'[UserFormKey] = errors[UserFormKey])]_vars

C20_Witness ==
  /\ last = Call("submitFormData", UserFormKey)
  /\ UserFormKey \in DOMAIN errors
  /\ errors[UserFormKey] = SubmitError
  /\ formData(UserFormKey) = [name |-> Prim("Ann")]
====
